---- MODULE Spec2Model ----
(***************************************************************************)
(* State-machine model of the Petri net engine of src/petrinet.py: the     *)
(* class Petrinet (load, token editing, firing, set_mark) and its          *)
(* depth-first reachability analysis, unrolled into one step per call,     *)
(* loop iteration and return of the nested function dfs.                   *)
(*                                                                         *)
(* Representation of Python values:                                        *)
(*   - a marking (list or tuple of ints) is a sequence; place id p         *)
(*     (0-based) is position p + 1;                                        *)
(*   - a transition is the pair <<pre, post>>; the list self.trans is a    *)
(*     sequence, transition index i (0-based) is position i + 1;           *)
(*   - None is NoneSeq (<<>>) for fields holding a marking, NoneInt (-1)   *)
(*     for fields holding a count, "None" for the flag self.bounded;       *)
(*   - the dict self.g is a function from markings to sets of edges        *)
(*     <<result, i>>; the dict self.ids is a function from ids to          *)
(*     transitions.                                                        *)
(***************************************************************************)
EXTENDS Integers, Sequences, FiniteSets, TLC

VARIABLES trans, mark, initial_mark, places, g, bounded, m_null, m_last,
          ids, marks, edges,
          visit, path, stack, arg, pc, ret,
          last_selected_place

vars == <<trans, mark, initial_mark, places, g, bounded, m_null, m_last,
          ids, marks, edges, visit, path, stack, arg, pc, ret,
          last_selected_place>>

netVars == <<trans, mark, initial_mark, places, g, bounded, m_null, m_last,
             ids, marks, edges>>

----------------------------------------------------------------------------
(* Bounds of the model and constants of the program.                       *)

\* the cap of _valid_mark
CAP == 10000

\* the most place, transition and arc elements of a file
MaxFilePlaces == 2

MaxFileTrans == 1

MaxFileArcs == 1

\* CPython's default recursion limit (sys.getrecursionlimit())
RecursionLimit == 1000

\* Python frames below the first dfs frame: the main module, the caller
\* (controller.analyse) and Petrinet.analysis
BaseFrames == 3

\* frames a dfs frame needs for its helper calls (_infinite calling
\* _a_greater_b; _valid_mark calling its generator)
HelperFrames == 2

\* largest small token count the interactive operations are followed to
MaxTok == 2

\* largest arc weight of the generated one-place nets
MaxWeight == 2

\* tokens on the first place of the deep net
DeepTokens == 1000

NoneSeq == <<>>

NoneInt == -1

EmptyGraph == [m \in {} |-> {}]

\* token counts the interactive operations are followed up to: the small
\* ones and the ones around the cap
Tracked(v) == v <= MaxTok \/ (CAP - 1 <= v /\ v <= CAP + 1)

----------------------------------------------------------------------------
(* Pure helpers of petrinet.py.                                            *)

\* tuple(p1 - p2 for p1, p2 in zip(a, b))
Minus(a, b) == [j \in 1 .. Len(a) |-> a[j] - b[j]]

\* tuple(p1 + p2 for p1, p2 in zip(a, b))
Plus(a, b) == [j \in 1 .. Len(a) |-> a[j] + b[j]]

\* a marking with an empty place is taken for invalid
_valid_mark_Mutant(m) == \A j \in 1 .. Len(m) : ~(m[j] <= 0 \/ m[j] > CAP)

\* Petrinet._valid_mark
_valid_mark(m) == \A j \in 1 .. Len(m) : ~(m[j] < 0 \/ m[j] > CAP)

\* zip(a, b) stops at the end of the shorter argument
ZipLen(a, b) == IF Len(a) <= Len(b) THEN Len(a) ELSE Len(b)

RECURSIVE _a_greater_b_loop(_, _, _, _)
\* the for loop of _a_greater_b from the j-th pair (ai, bi) on, with the
\* value of one_greater so far
_a_greater_b_loop(a, b, j, one_greater) ==
    IF j > ZipLen(a, b) THEN one_greater
    ELSE IF b[j] > a[j] THEN FALSE
    ELSE _a_greater_b_loop(a, b, j + 1, (a[j] > b[j]) \/ one_greater)

\* the early `return False` of the loop is lost
_a_greater_b_Mutant(a, b) == \E j \in 1 .. Len(a) : a[j] > b[j]

\* Petrinet._a_greater_b
_a_greater_b(a, b) == _a_greater_b_loop(a, b, 1, FALSE)

\* the loop runs over the path backwards: the last dominated marking wins
FirstDominated_Mutant(p, m) ==
    IF \E k \in 1 .. Len(p) : _a_greater_b(m, p[k])
    THEN CHOOSE k \in 1 .. Len(p) :
            /\ _a_greater_b(m, p[k])
            /\ \A l \in (k + 1) .. Len(p) : ~_a_greater_b(m, p[l])
    ELSE 0

\* the loop of Petrinet._infinite: the position of the first marking of the
\* path p that m dominates, 0 when there is none
FirstDominated(p, m) ==
    IF \E k \in 1 .. Len(p) : _a_greater_b(m, p[k])
    THEN CHOOSE k \in 1 .. Len(p) :
            /\ _a_greater_b(m, p[k])
            /\ \A l \in 1 .. (k - 1) : ~_a_greater_b(m, p[l])
    ELSE 0

\* the dict built by the loop of update_net
\* the offset by the place count is lost
MakeIds_Mutant(n, t) == [id \in 0 .. (Len(t) - 1) |-> t[id + 1]]

MakeIds(n, t) == [id \in n .. (n + Len(t) - 1) |-> t[id - n + 1]]

----------------------------------------------------------------------------
(* The nets that are loaded.                                               *)

Tr(pre, post) == <<pre, post>>

Net(m, t) == [m |-> m, t |-> t]

\* one place, at most one transition, every weight up to MaxWeight
Nets1 ==
    { Net(<<k>>, <<>>) : k \in 0 .. 1 }
    \cup { Net(<<k>>, << Tr(<<a>>, <<b>>) >>) :
             k \in 0 .. 1, a \in 0 .. MaxWeight, b \in 0 .. MaxWeight }

\* token passing between two places (Scenario B)
NetB == Net(<<1, 0>>, << Tr(<<1, 0>>, <<0, 1>>), Tr(<<0, 1>>, <<1, 0>>) >>)

\* the second firing dominates both markings of the path
NetD == Net(<<0, 1>>, << Tr(<<0, 1>>, <<1, 0>>), Tr(<<1, 0>>, <<1, 1>>) >>)

\* two independent consumers: a diamond
NetE == Net(<<1, 1>>, << Tr(<<1, 0>>, <<0, 0>>), Tr(<<0, 1>>, <<0, 0>>) >>)

\* a dead end first, growth in the sibling branch
NetF == Net(<<1, 0>>, << Tr(<<1, 0>>, <<0, 0>>), Tr(<<1, 0>>, <<1, 1>>) >>)

\* one place at the cap with a producer
NetK1 == Net(<<CAP>>, << Tr(<<0>>, <<1>>) >>)

\* a place at the cap fed once, then relieved by a heavy arc
NetK2 == Net(<<CAP, 1>>,
             << Tr(<<0, 1>>, <<1, 0>>), Tr(<<CAP + 1, 0>>, <<CAP, 0>>) >>)

Nets == Nets1 \cup {NetB, NetD, NetE, NetF, NetK1, NetK2}

\* a long chain of markings none of which dominates an earlier one
NetDeep == Net(<<DeepTokens, 0>>, << Tr(<<1, 0>>, <<0, 1>>) >>)

----------------------------------------------------------------------------
(* The record of the last call: its name, arguments and outcome. analysis  *)
(* takes no argument but reads self: the live marking it was called at is  *)
(* recorded as its argument.                                               *)

Ret(op, args, result) == [op |-> op, args |-> args, result |-> result]

Bool(b) == IF b THEN "True" ELSE "False"

Loaded == mark # NoneSeq

InTokens(m) == \A j \in 1 .. Len(m) : Tracked(m[j])

----------------------------------------------------------------------------
\* Petrinet.__init__
Init ==
    /\ trans = NoneSeq
    /\ mark = NoneSeq
    /\ initial_mark = NoneSeq
    /\ places = NoneInt
    /\ g = EmptyGraph
    /\ bounded = "None"
    /\ m_null = NoneSeq
    /\ m_last = NoneSeq
    /\ ids = EmptyGraph
    /\ marks = NoneInt
    /\ edges = NoneInt
    /\ visit = {}
    /\ path = <<>>
    /\ stack = <<>>
    /\ arg = NoneSeq
    /\ pc = "idle"
    /\ ret = Ret("__init__", <<>>, "None")
    /\ last_selected_place = NoneInt

\* the assignments of update_net(m, t)
Load(net) ==
    /\ trans' = net.t
    /\ mark' = net.m
    /\ initial_mark' = net.m
    /\ places' = Len(net.m)
    /\ g' = EmptyGraph
    /\ bounded' = "None"
    /\ m_null' = NoneSeq
    /\ m_last' = NoneSeq
    /\ marks' = 0
    /\ edges' = 0
    /\ ids' = MakeIds(Len(net.m), net.t)

\* the locals of analysis (visit, path, the frames of dfs) do not outlive
\* the call: any other call starts without them
DeadLocals ==
    /\ visit' = {}
    /\ path' = <<>>
    /\ stack' = <<>>
    /\ arg' = NoneSeq
    /\ pc' = "idle"

\* Petrinet.update_net
update_net ==
    /\ pc = "idle"
    /\ \E net \in Nets :
          /\ Load(net)
          /\ ret' = Ret("update_net", <<net.m, net.t>>, "None")
    /\ DeadLocals
    /\ UNCHANGED last_selected_place

\* the inputs of change_mark: the controller passes +1 and -1
Amounts == {-2, -1, 1, 2}

\* the test of the new count is off by one
change_mark_ok_Mutant(amount, place) ==
    0 <= place /\ place < places /\ mark[place + 1] + amount >= -1

\* the condition of change_mark
change_mark_ok(amount, place) ==
    0 <= place /\ place < places /\ mark[place + 1] + amount >= 0

\* `=` for `+=`
change_mark_result_Mutant(amount, place) ==
    [mark EXCEPT ![place + 1] = amount]

\* self.mark[place] += amount
change_mark_result(amount, place) ==
    [mark EXCEPT ![place + 1] = @ + amount]

\* the snapshot is not taken
change_mark_initial_Mutant(amount, place) == initial_mark

\* self.initial_mark = tuple(self.mark), after the update of self.mark
change_mark_initial(amount, place) == change_mark_result(amount, place)

\* Petrinet.change_mark
change_mark ==
    /\ pc = "idle"
    /\ Loaded
    /\ \E amount \in Amounts, place \in -1 .. places :
          /\ IF change_mark_ok(amount, place)
             THEN /\ InTokens(change_mark_result(amount, place))
                  /\ mark' = change_mark_result(amount, place)
                  /\ initial_mark' = change_mark_initial(amount, place)
             ELSE UNCHANGED <<mark, initial_mark>>
          /\ ret' = Ret("change_mark", <<amount, place>>,
                        Bool(change_mark_ok(amount, place)))
    /\ UNCHANGED <<trans, places, g, bounded, m_null, m_last, ids, marks, edges>>
    /\ DeadLocals
    /\ UNCHANGED last_selected_place

\* the markings shown in the reachability graph: the keys of self.g and
\* the targets of its edges
GraphMarkings == DOMAIN g \cup { e[1] : e \in UNION { g[m] : m \in DOMAIN g } }

\* the loop is lost: the live marking stays
set_mark_result_Mutant(new_mark) == mark

\* the loop of set_mark: self.mark[i] = new_mark[i] for i in
\* range(len(self.mark))
set_mark_result(new_mark) == [i \in 1 .. Len(mark) |-> new_mark[i]]

\* the initial marking follows the live marking, as it does in change_mark
set_mark_Mutant ==
    /\ pc = "idle"
    /\ Loaded
    /\ \E new_mark \in GraphMarkings \cup {initial_mark} :
          /\ mark' = set_mark_result(new_mark)
          /\ initial_mark' = mark'
          /\ ret' = Ret("set_mark", <<new_mark>>, "None")
    /\ UNCHANGED <<trans, places, g, bounded, m_null, m_last, ids, marks, edges>>
    /\ DeadLocals
    /\ UNCHANGED last_selected_place

\* Petrinet.set_mark, called with a marking of the graph
\* (load_marking_from_reach_graph) or the initial marking
\* (reset_reachability_graph)
set_mark ==
    /\ pc = "idle"
    /\ Loaded
    /\ \E new_mark \in GraphMarkings \cup {initial_mark} :
          /\ mark' = set_mark_result(new_mark)
          /\ ret' = Ret("set_mark", <<new_mark>>, "None")
    /\ UNCHANGED <<trans, initial_mark, places, g, bounded, m_null, m_last,
                   ids, marks, edges>>
    /\ DeadLocals
    /\ UNCHANGED last_selected_place

\* tmp of fire_trans for the transition t = <<t_pre, t_post>>
fire_candidate(t) == Minus(mark, t[1])

\* the new marking of fire_trans
fire_result(t) == Plus(fire_candidate(t), t[2])

\* the new marking is tested as well as tmp
fire_ok_ResultMutant(t_id) ==
    /\ t_id \in DOMAIN ids
    /\ _valid_mark(fire_candidate(ids[t_id]))
    /\ _valid_mark(fire_result(ids[t_id]))

\* the test of tmp is lost
fire_ok_Mutant(t_id) == t_id \in DOMAIN ids

\* fire_trans returns True
fire_ok(t_id) == t_id \in DOMAIN ids /\ _valid_mark(fire_candidate(ids[t_id]))

\* Petrinet.fire_trans
fire_trans ==
    /\ pc = "idle"
    /\ Loaded
    /\ \E t_id \in 0 .. (places + Len(trans)) :
          /\ IF fire_ok(t_id)
             THEN /\ InTokens(fire_result(ids[t_id]))
                  /\ mark' = fire_result(ids[t_id])
             ELSE UNCHANGED mark
          /\ ret' = Ret("fire_trans", <<t_id>>, Bool(fire_ok(t_id)))
    /\ UNCHANGED <<trans, initial_mark, places, g, bounded, m_null, m_last,
                   ids, marks, edges>>
    /\ DeadLocals
    /\ UNCHANGED last_selected_place

----------------------------------------------------------------------------
(* Petrinet.analysis. The nested function dfs is unrolled: `stack` holds a *)
(* frame per active call that has reached its loop (its marking and the    *)
(* position of the next transition to try), `arg` the argument of the call *)
(* being entered, and pc the position:                                     *)
(*   "call"   dfs(arg) is being entered,                                   *)
(*   "loop"   the top frame is at the head of its for loop,                *)
(*   "false"  a call has returned False and its caller is returning False, *)
(*   "idle"   no analysis is running.                                      *)

Frame(m, i) == [mark |-> m, i |-> i]

Top == stack[Len(stack)]

Pop(s) == SubSeq(s, 1, Len(s) - 1)

\* the entry is not created
AddNode_Mutant(gr, m) == gr

\* self.g[mark] = set()
AddNode(gr, m) == [x \in DOMAIN gr \cup {m} |-> IF x = m THEN {} ELSE gr[x]]

\* the edge replaces the set instead of joining it
AddEdge_Mutant(gr, m, r, i) == [gr EXCEPT ![m] = {<<r, i>>}]

\* self.g[mark].add((tmp, i))
AddEdge(gr, m, r, i) == [gr EXCEPT ![m] = @ \cup {<<r, i>>}]

\* the live marking is not reset
analysis_mark_Mutant == mark

\* self.mark = list(self.initial_mark), the argument of the first call of dfs
analysis_mark == initial_mark

\* the counters are not reset: self.marks = 0 and self.edges = 0 are lost
analysis_start_Mutant ==
    /\ pc = "idle"
    /\ Loaded
    /\ visit' = {}
    /\ path' = <<>>
    /\ mark' = analysis_mark
    /\ g' = EmptyGraph
    /\ bounded' = "None"
    /\ m_null' = NoneSeq
    /\ m_last' = NoneSeq
    /\ stack' = <<>>
    /\ arg' = analysis_mark
    /\ pc' = "call"
    /\ ret' = Ret("analysis", <<mark>>, "running")
    /\ UNCHANGED <<trans, initial_mark, places, ids, marks, edges,
                   last_selected_place>>

\* the lines of analysis before the first call of dfs
analysis_start ==
    /\ pc = "idle"
    /\ Loaded
    /\ visit' = {}
    /\ path' = <<>>
    /\ mark' = analysis_mark
    /\ g' = EmptyGraph
    /\ marks' = 0
    /\ edges' = 0
    /\ bounded' = "None"
    /\ m_null' = NoneSeq
    /\ m_last' = NoneSeq
    /\ stack' = <<>>
    /\ arg' = analysis_mark
    /\ pc' = "call"
    /\ ret' = Ret("analysis", <<mark>>, "running")
    /\ UNCHANGED <<trans, initial_mark, places, ids, last_selected_place>>

\* the interpreter raises RecursionError in a dfs frame that cannot hold its
\* helper calls any more
TooDeep == BaseFrames + Len(stack) + 1 + HelperFrames > RecursionLimit

\* the test is lost: no marking counts as visited
Visited_Mutant(m) == FALSE

\* `if mark in visit`
Visited(m) == m \in visit

\* `return True` of the call that was entered from the top frame, or from
\* analysis itself when no frame is left: `if dfs(self.mark)`
ReturnTrue(st) ==
    IF st = <<>>
    THEN /\ bounded' = "True"
         /\ pc' = "idle"
         /\ ret' = Ret("analysis", ret.args, "None")
    ELSE /\ bounded' = bounded
         /\ pc' = "loop"
         /\ ret' = ret

\* dfs(arg) up to the head of its loop
dfs_enter ==
    /\ pc = "call"
    /\ IF TooDeep
       THEN /\ pc' = "idle"
            /\ ret' = Ret("analysis", ret.args, "RecursionError")
            /\ stack' = <<>>
            /\ UNCHANGED <<visit, path, g, marks, bounded, m_null, m_last>>
       ELSE IF Visited(arg)
       THEN /\ ReturnTrue(stack)
            /\ UNCHANGED <<visit, path, stack, g, marks, m_null, m_last>>
       ELSE /\ visit' = visit \cup {arg}
            /\ IF FirstDominated(path, arg) # 0
               THEN /\ m_null' = path[FirstDominated(path, arg)]
                    /\ m_last' = arg
                    /\ pc' = "false"
                    /\ UNCHANGED <<path, stack, g, marks, bounded, ret>>
               ELSE /\ path' = Append(path, arg)
                    /\ g' = AddNode(g, arg)
                    /\ marks' = marks + 1
                    /\ stack' = Append(stack, Frame(arg, 1))
                    /\ pc' = "loop"
                    /\ UNCHANGED <<m_null, m_last, bounded, ret>>
    /\ UNCHANGED last_selected_place
    /\ UNCHANGED <<trans, mark, initial_mark, places, ids, edges, arg>>

\* tmp of dfs before the test
dfs_candidate(m, t) == Minus(m, t[1])

\* post is not added
dfs_result_Mutant(m, t) == dfs_candidate(m, t)

\* tmp of dfs after the test
dfs_result(m, t) == Plus(dfs_candidate(m, t), t[2])

\* one iteration of the for loop of the top frame, up to the recursive
\* call; or, the list exhausted, path.pop() and `return True`
dfs_loop ==
    /\ pc = "loop"
    /\ IF Top.i > Len(trans)
       THEN /\ path' = Pop(path)
            /\ stack' = Pop(stack)
            /\ ReturnTrue(Pop(stack))
            /\ UNCHANGED <<g, edges, arg>>
       ELSE /\ stack' = [stack EXCEPT ![Len(stack)].i = @ + 1]
            /\ IF _valid_mark(dfs_candidate(Top.mark, trans[Top.i]))
               THEN /\ g' = AddEdge(g, Top.mark,
                                    dfs_result(Top.mark, trans[Top.i]), Top.i - 1)
                    /\ edges' = edges + 1
                    /\ arg' = dfs_result(Top.mark, trans[Top.i])
                    /\ pc' = "call"
               ELSE /\ pc' = "loop"
                    /\ UNCHANGED <<g, edges, arg>>
            /\ UNCHANGED <<path, bounded, ret>>
    /\ UNCHANGED last_selected_place
    /\ UNCHANGED <<trans, mark, initial_mark, places, ids, marks, visit,
                   m_null, m_last>>

\* `return False` is lost: the loop of the caller goes on
dfs_false_Mutant ==
    /\ pc = "false"
    /\ IF stack = <<>>
       THEN /\ bounded' = "False"
            /\ pc' = "idle"
            /\ ret' = Ret("analysis", ret.args, "None")
       ELSE /\ pc' = "loop"
            /\ UNCHANGED <<bounded, ret>>
    /\ UNCHANGED last_selected_place
    /\ UNCHANGED <<trans, mark, initial_mark, places, ids, g, marks, edges,
                   visit, path, stack, arg, m_null, m_last>>

\* `if not dfs(tmp): return False` in the top frame, or
\* `self.bounded = False` in analysis when no frame is left
dfs_false ==
    /\ pc = "false"
    /\ IF stack = <<>>
       THEN /\ bounded' = "False"
            /\ pc' = "idle"
            /\ ret' = Ret("analysis", ret.args, "None")
            /\ stack' = stack
       ELSE /\ stack' = Pop(stack)
            /\ UNCHANGED <<bounded, pc, ret>>
    /\ UNCHANGED last_selected_place
    /\ UNCHANGED <<trans, mark, initial_mark, places, ids, g, marks, edges,
                   visit, path, arg, m_null, m_last>>

----------------------------------------------------------------------------
Next ==
    \/ update_net
    \/ change_mark
    \/ set_mark
    \/ fire_trans
    \/ analysis_start
    \/ dfs_enter
    \/ dfs_loop
    \/ dfs_false

Spec == Init /\ [][Next]_vars

\* the analysis of the deep net alone
InitDeep ==
    /\ trans = NetDeep.t
    /\ mark = NetDeep.m
    /\ initial_mark = NetDeep.m
    /\ places = Len(NetDeep.m)
    /\ g = EmptyGraph
    /\ bounded = "None"
    /\ m_null = NoneSeq
    /\ m_last = NoneSeq
    /\ ids = MakeIds(Len(NetDeep.m), NetDeep.t)
    /\ marks = 0
    /\ edges = 0
    /\ visit = {}
    /\ path = <<>>
    /\ stack = <<>>
    /\ arg = NoneSeq
    /\ pc = "idle"
    /\ ret = Ret("update_net", <<NetDeep.m, NetDeep.t>>, "None")
    /\ last_selected_place = NoneInt

NextDeep ==
    \/ analysis_start
    \/ dfs_enter
    \/ dfs_loop

SpecDeep == InitDeep /\ [][NextDeep]_vars

\* the token counts of the markings the domination test is called with
DomTokens == 0 .. (MaxTok + 1)

\* the markings the domination test is called with: one or two places
DomMarkings == [1 .. 1 -> DomTokens] \cup [1 .. 2 -> DomTokens]

\* a call of the static method Petrinet._a_greater_b(a, b) with two
\* markings of the same length
a_greater_b_call ==
    /\ pc = "idle"
    /\ \E a \in DomMarkings, b \in DomMarkings :
          /\ Len(a) = Len(b)
          /\ ret' = Ret("_a_greater_b", <<a, b>>, Bool(_a_greater_b(a, b)))
    /\ UNCHANGED netVars
    /\ DeadLocals
    /\ UNCHANGED last_selected_place

NextDom == a_greater_b_call

\* the domination test alone, on a net object as constructed
SpecDom == Init /\ [][NextDom]_vars

----------------------------------------------------------------------------
(* The labels of the reachability view. A string is the sequence of its    *)
(* characters.                                                             *)

DigitChar == <<"0", "1", "2", "3", "4", "5", "6", "7", "8", "9">>

RECURSIVE str_int(_)
\* str(n) of an int
str_int(n) ==
    IF n < 0 THEN <<"-">> \o str_int(-n)
    ELSE IF n < 10 THEN <<DigitChar[n + 1]>>
    ELSE str_int(n \div 10) \o <<DigitChar[(n % 10) + 1]>>

RECURSIVE JoinItems(_)
\* ", ".join of the str of the items of m
JoinItems(m) ==
    IF m = <<>> THEN <<>>
    ELSE IF Len(m) = 1 THEN str_int(m[1])
    ELSE str_int(m[1]) \o <<",", " ">> \o JoinItems(Tail(m))

\* str(m) of a tuple: a tuple of one item has a trailing comma
str_tuple(m) ==
    <<"(">> \o JoinItems(m) \o (IF Len(m) = 1 THEN <<",">> ELSE <<>>) \o <<")">>

\* str(m) of a list
str_list(m) == <<"[">> \o JoinItems(m) \o <<"]">>

\* s[1:-1]
Inner(s) == SubSeq(s, 2, Len(s) - 1)

\* '(' + str(self.net.mark)[1:-1] + ')': the label the controller makes of
\* the live marking, a list
list_label(m) == <<"(">> \o Inner(str_list(m)) \o <<")">>

\* the position of the first comma of s, 0 when it has none
FirstComma(s) ==
    IF \E k \in 1 .. Len(s) : s[k] = ","
    THEN CHOOSE k \in 1 .. Len(s) : s[k] = "," /\ \A l \in 1 .. (k - 1) : s[l] # ","
    ELSE 0

RECURSIVE split(_)
\* s.split(',')
split(s) ==
    IF FirstComma(s) = 0 THEN <<s>>
    ELSE <<SubSeq(s, 1, FirstComma(s) - 1)>> \o split(SubSeq(s, FirstComma(s) + 1, Len(s)))

RECURSIVE strip(_)
\* int ignores the white space around the number
strip(s) ==
    IF s # <<>> /\ s[1] = " " THEN strip(Tail(s))
    ELSE IF s # <<>> /\ s[Len(s)] = " " THEN strip(SubSeq(s, 1, Len(s) - 1))
    ELSE s

\* the digits of the number in s, after its sign
Digits(s) == IF strip(s) # <<>> /\ strip(s)[1] \in {"-", "+"} THEN Tail(strip(s)) ELSE strip(s)

\* int(s) returns: s holds a sign at most and one digit at least
int_ok(s) ==
    /\ Digits(s) # <<>>
    /\ \A k \in 1 .. Len(Digits(s)) : \E d \in 1 .. 10 : DigitChar[d] = Digits(s)[k]

RECURSIVE DigitsValue(_)
DigitsValue(ds) ==
    IF ds = <<>> THEN 0
    ELSE 10 * DigitsValue(SubSeq(ds, 1, Len(ds) - 1))
         + (CHOOSE d \in 0 .. 9 : DigitChar[d + 1] = ds[Len(ds)])

\* the value of int(s)
int_value(s) ==
    IF strip(s)[1] = "-" THEN 0 - DigitsValue(Digits(s)) ELSE DigitsValue(Digits(s))

\* tuple(int(x) for x in marking_str[1:-1].split(',')): the tuple, or the
\* ValueError of int
parse_marking(marking_str) ==
    LET parts == split(Inner(marking_str))
    IN  IF \A i \in 1 .. Len(parts) : int_ok(parts[i])
        THEN [ok |-> TRUE, val |-> [i \in 1 .. Len(parts) |-> int_value(parts[i])]]
        ELSE [ok |-> FALSE, val |-> <<>>]

----------------------------------------------------------------------------
(* PetriNetController: the handlers the view calls. Its net is the Petri   *)
(* net above; last_selected_place is None (NoneInt) or the id of the place *)
(* that was clicked.                                                       *)

\* one place with a consumer
NetC1 == Net(<<1>>, << Tr(<<1>>, <<0>>) >>)

\* the nets the files of the controller hold
CtlNets == {NetB, NetD, NetK2, NetC1}

\* no handler is running: analyse is the only handler that takes several
\* steps, from the call of analysis to its return
CtlReady == pc = "idle" /\ ~(ret.op = "analysis" /\ ret.result = "None")

\* PetriNetController.new_net with a file that parses to net
new_net ==
    /\ CtlReady
    /\ last_selected_place' = NoneInt
    /\ \E net \in CtlNets :
          /\ Load(net)
          /\ ret' = Ret("new_net", <<net.m, net.t>>, "None")
    /\ DeadLocals

\* last_selected_place after place_clicked(model_id, node)
place_clicked_result(model_id) ==
    IF last_selected_place = model_id THEN NoneInt ELSE model_id

\* PetriNetController.place_clicked, called by the place nodes of the view
place_clicked ==
    /\ CtlReady
    /\ Loaded
    /\ \E model_id \in 0 .. (places - 1) :
          /\ last_selected_place' = place_clicked_result(model_id)
          /\ ret' = Ret("place_clicked", <<model_id>>, "None")
    /\ UNCHANGED netVars
    /\ DeadLocals

\* the selection survives a firing
fired_selection_Mutant == last_selected_place

\* self.place_clicked(None, None) after a successful firing
fired_selection == place_clicked_result(NoneInt)

\* PetriNetController.fire_trans, called by the transition nodes of the view
controller_fire_trans ==
    /\ CtlReady
    /\ Loaded
    /\ \E t_id \in places .. (places + Len(trans) - 1) :
          /\ IF fire_ok(t_id)
             THEN /\ InTokens(fire_result(ids[t_id]))
                  /\ mark' = fire_result(ids[t_id])
                  /\ last_selected_place' = fired_selection
             ELSE UNCHANGED <<mark, last_selected_place>>
          /\ ret' = Ret("controller.fire_trans", <<t_id>>, Bool(fire_ok(t_id)))
    /\ UNCHANGED <<trans, initial_mark, places, g, bounded, m_null, m_last,
                   ids, marks, edges>>
    /\ DeadLocals

\* self.net.change_mark(amount, self.last_selected_place) is called and
\* returns True
token_edit_ok(amount) ==
    last_selected_place # NoneInt /\ change_mark_ok(amount, last_selected_place)

\* add_token and subtract_token: change_mark(amount, last_selected_place)
\* when a place is selected
token_edit(op, amount) ==
    /\ CtlReady
    /\ IF token_edit_ok(amount)
       THEN /\ InTokens(change_mark_result(amount, last_selected_place))
            /\ mark' = change_mark_result(amount, last_selected_place)
            /\ initial_mark' = change_mark_initial(amount, last_selected_place)
       ELSE UNCHANGED <<mark, initial_mark>>
    /\ ret' = Ret(op, <<last_selected_place>>, Bool(token_edit_ok(amount)))
    /\ UNCHANGED <<trans, places, g, bounded, m_null, m_last, ids, marks, edges,
                   last_selected_place>>
    /\ DeadLocals

\* PetriNetController.add_token
add_token == token_edit("add_token", 1)

\* PetriNetController.subtract_token
subtract_token == token_edit("subtract_token", -1)

\* the labels of the marking nodes of the view that can be clicked: those
\* analyse made of the keys and edge targets of the graph, and those made
\* of the live marking on load, edit, reset and firing
Labels ==
    { str_tuple(m) : m \in GraphMarkings } \cup { list_label(mark), list_label(initial_mark) }

\* PetriNetController.load_marking_from_reach_graph, called by the marking
\* nodes of the view
load_marking_from_reach_graph ==
    /\ CtlReady
    /\ Loaded
    /\ \E marking_str \in Labels :
          /\ IF parse_marking(marking_str).ok
             THEN mark' = set_mark_result(parse_marking(marking_str).val)
             ELSE UNCHANGED mark
          /\ ret' = Ret("load_marking_from_reach_graph", <<marking_str>>,
                        IF parse_marking(marking_str).ok THEN "None" ELSE "ValueError")
    /\ UNCHANGED <<trans, initial_mark, places, g, bounded, m_null, m_last,
                   ids, marks, edges, last_selected_place>>
    /\ DeadLocals

\* PetriNetController.analyse up to the call of analysis
analyse ==
    /\ CtlReady
    /\ IF Loaded
       THEN analysis_start
       ELSE /\ ret' = Ret("analyse", <<>>, "None")
            /\ UNCHANGED <<netVars, last_selected_place>>
            /\ DeadLocals

\* PetriNetController.analyse after the return of analysis:
\* load_marking_from_reach_graph(str(self.net.initial_mark))
analyse_show ==
    /\ pc = "idle"
    /\ ret.op = "analysis" /\ ret.result = "None"
    /\ IF parse_marking(str_tuple(initial_mark)).ok
       THEN mark' = set_mark_result(parse_marking(str_tuple(initial_mark)).val)
       ELSE UNCHANGED mark
    /\ ret' = Ret("analyse", <<str_tuple(initial_mark)>>,
                  IF parse_marking(str_tuple(initial_mark)).ok
                  THEN "None" ELSE "ValueError")
    /\ UNCHANGED <<trans, initial_mark, places, g, bounded, m_null, m_last,
                   ids, marks, edges, last_selected_place>>
    /\ DeadLocals

\* PetriNetController.reset_reachability_graph
reset_reachability_graph ==
    /\ CtlReady
    /\ IF Loaded
       THEN mark' = set_mark_result(initial_mark)
       ELSE UNCHANGED mark
    /\ ret' = Ret("reset_reachability_graph", <<>>, "None")
    /\ UNCHANGED <<trans, initial_mark, places, g, bounded, m_null, m_last,
                   ids, marks, edges, last_selected_place>>
    /\ DeadLocals

NextCtl ==
    \/ new_net
    \/ place_clicked
    \/ controller_fire_trans
    \/ add_token
    \/ subtract_token
    \/ load_marking_from_reach_graph
    \/ reset_reachability_graph
    \/ analyse
    \/ dfs_enter
    \/ dfs_loop
    \/ dfs_false
    \/ analyse_show

\* the controller with its net, as the view drives them
SpecCtl == Init /\ [][NextCtl]_vars

----------------------------------------------------------------------------
(* petri_io.Parser. A file is what findall and get give of its XML: the    *)
(* place elements (id and the text of initialMarking), the transition      *)
(* elements (id) and the arc elements (source, target and the text of      *)
(* inscription), in document order. A text is the sequence of its          *)
(* characters, empty when the element is missing or has no text.           *)

\* the ids of the elements of the files
FileIds == {"a", "b"}

\* the texts of initialMarking
MarkingTexts == { <<>>, <<"1">>, <<"-", "1">> }

\* the texts of inscription
InscriptionTexts == { <<>>, <<"2">>, <<"-", "1">>, <<"x">> }

\* the sequences over S of length k at most
SeqUpTo(S, k) == UNION { [1 .. l -> S] : l \in 0 .. k }

Files ==
    [ places : SeqUpTo([id : FileIds, marking : MarkingTexts], MaxFilePlaces),
      trans  : SeqUpTo(FileIds, MaxFileTrans),
      arcs   : SeqUpTo([source : FileIds, target : FileIds,
                        inscription : InscriptionTexts], MaxFileArcs) ]

\* the items of a list: `x in l`
Members(l) == { l[k] : k \in 1 .. Len(l) }

\* int(text.strip()) in a try block, d on any exception
int_or(text, d) == IF int_ok(text) THEN int_value(text) ELSE d

\* place_ids of validate and get_controller_data
place_ids(f) == [k \in 1 .. Len(f.places) |-> f.places[k].id]

\* trans_ids of validate
trans_ids(f) == f.trans

\* self.edges after parse_edges: a missing or empty inscription is the
\* weight 1, and so is one that is no number
edges_of(f) ==
    [k \in 1 .. Len(f.arcs) |->
        [src |-> f.arcs[k].source, dst |-> f.arcs[k].target,
         weight |-> IF f.arcs[k].inscription = <<>> THEN 1
                    ELSE int_or(f.arcs[k].inscription, 1)]]

\* the places whose initialMarking text writes self.mark[pid]
Marked(f, pid) ==
    { k \in 1 .. Len(f.places) : f.places[k].id = pid /\ f.places[k].marking # <<>> }

\* the greatest member of a set of positions
Last(S) == CHOOSE k \in S : \A l \in S : l <= k

\* self.mark[pid] after parse_initial_marking: the entry of the last place
\* with the id, 0 when its text is no number
mark_of(f, pid) == int_or(f.places[Last(Marked(f, pid))].marking, 0)

\* Parser.validate returns True (it raises ValueError otherwise)
validate(f) ==
    /\ \A k, l \in 1 .. Len(f.places) : place_ids(f)[k] = place_ids(f)[l] => k = l
    /\ \A k, l \in 1 .. Len(f.trans) : trans_ids(f)[k] = trans_ids(f)[l] => k = l
    /\ \A k \in 1 .. Len(f.arcs) :
          /\ edges_of(f)[k].src \in Members(place_ids(f)) \cup Members(trans_ids(f))
          /\ edges_of(f)[k].dst \in Members(place_ids(f)) \cup Members(trans_ids(f))
          /\ ~ \/ /\ edges_of(f)[k].src \in Members(place_ids(f))
                  /\ edges_of(f)[k].dst \in Members(place_ids(f))
               \/ /\ edges_of(f)[k].src \in Members(trans_ids(f))
                  /\ edges_of(f)[k].dst \in Members(trans_ids(f))
    /\ \A pid \in FileIds :
          Marked(f, pid) # {} => pid \in Members(place_ids(f)) /\ ~(mark_of(f, pid) < 0)

\* place_index[pid]: the dict keeps the last index of an id
place_index(f, pid) == Last({ k \in 1 .. Len(f.places) : place_ids(f)[k] = pid })

\* the arcs that write pre[i] of the transition tid
pre_arcs(f, tid, i) ==
    { k \in 1 .. Len(f.arcs) :
        /\ edges_of(f)[k].dst = tid
        /\ edges_of(f)[k].src \in Members(place_ids(f))
        /\ place_index(f, edges_of(f)[k].src) = i }

\* the arcs that write post[i] of the transition tid
post_arcs(f, tid, i) ==
    { k \in 1 .. Len(f.arcs) :
        /\ edges_of(f)[k].src = tid
        /\ edges_of(f)[k].dst \in Members(place_ids(f))
        /\ place_index(f, edges_of(f)[k].dst) = i }

\* the entry of a vector that starts as 0 and is written by the arcs S in
\* order
written(f, S) == IF S = {} THEN 0 ELSE edges_of(f)[Last(S)].weight

\* the marking new_net makes of the places of get_controller_data
file_mark(f) ==
    [k \in 1 .. Len(f.places) |->
        IF Marked(f, place_ids(f)[k]) # {} THEN mark_of(f, place_ids(f)[k]) ELSE 0]

\* the transitions new_net makes of the transitions of get_controller_data
file_trans(f) ==
    [j \in 1 .. Len(f.trans) |->
        Tr([i \in 1 .. Len(f.places) |-> written(f, pre_arcs(f, f.trans[j], i))],
           [i \in 1 .. Len(f.places) |-> written(f, post_arcs(f, f.trans[j], i))])]

\* PetriNetController.new_net as __init__ calls it through open_file_dialog,
\* with a file chosen: Parser().parse(file_path), then update_net unless
\* parse has raised
parse ==
    /\ pc = "idle"
    /\ ret.op = "__init__"
    /\ last_selected_place' = NoneInt
    /\ \E f \in Files :
          IF validate(f)
          THEN /\ Load(Net(file_mark(f), file_trans(f)))
               /\ ret' = Ret("parse", <<f>>, "None")
          ELSE /\ UNCHANGED netVars
               /\ ret' = Ret("parse", <<f>>, "ValueError")
    /\ DeadLocals

NextIO == parse

\* the loader on a controller as constructed
SpecIO == Init /\ [][NextIO]_vars

----------------------------------------------------------------------------
(* The vocabulary of the claims, stated without the operators of the model *)
(* above.                                                                  *)

Places == 1 .. Len(mark)

\* every component of m lies in [0, CAP]
WithinCap(m) == \A j \in 1 .. Len(m) : 0 <= m[j] /\ m[j] <= CAP

\* a dominates b
Dominates(a, b) ==
    /\ \A j \in 1 .. Len(a) : a[j] >= b[j]
    /\ \E j \in 1 .. Len(a) : a[j] > b[j]

\* the firing rule: t fires at m when m - pre lies in [0, CAP]
Fires(m, t) == \A j \in 1 .. Len(m) : 0 <= m[j] - t[1][j] /\ m[j] - t[1][j] <= CAP

Fired(m, t) == [j \in 1 .. Len(m) |-> m[j] - t[1][j] + t[2][j]]

\* the edges the firing rule gives the marking m
RuleEdges(m) ==
    { <<Fired(m, trans[i]), i - 1>> : i \in { k \in 1 .. Len(trans) : Fires(m, trans[k]) } }

RuleSucc(m) == { e[1] : e \in RuleEdges(m) }

RECURSIVE ReachFrom(_)
\* the markings reachable from the set S by successful firings
ReachFrom(S) ==
    LET N == S \cup UNION { RuleSucc(m) : m \in S }
    IN  IF N = S THEN S ELSE ReachFrom(N)

Range(p) == { p[k] : k \in 1 .. Len(p) }

RECURSIVE ReachFromIn(_, _)
\* the markings reachable from the set S along the edges of the graph gr
ReachFromIn(gr, S) ==
    LET N == S \cup { e[1] : e \in UNION { gr[m] : m \in S \cap DOMAIN gr } }
    IN  IF N = S THEN S ELSE ReachFromIn(gr, N)

RECURSIVE DominationAfter(_)
\* some continuation of the path p by firings, every marking in [0, CAP]^n
\* and no marking twice, reaches a marking that dominates an earlier one
DominationAfter(p) ==
    \E r \in RuleSucc(p[Len(p)]) :
        /\ WithinCap(r)
        /\ \/ \E k \in 1 .. Len(p) : Dominates(r, p[k])
           \/ r \notin Range(p) /\ DominationAfter(Append(p, r))

\* analysis has returned and no other call was made since
AnalysisReturned == ret.op = "analysis" /\ pc = "idle"

\* analysis is running or has just returned: its locals are there
AnalysisLocals == ret.op = "analysis"

\* the call being made is a call of op
Calls(op) == pc = "idle" /\ ret'.op = op

ScenarioA == Net(<<1>>, << Tr(<<1>>, <<2>>) >>)

----------------------------------------------------------------------------
\* C1: analysis terminates and reports bounded if and only if no marking on
\* any DFS path from the initial marking, all markings of the path lying in
\* [0, CAP]^n, dominates an earlier marking of that path.
C1_BoundedIffNoDominationWithinCap ==
    AnalysisReturned =>
        (bounded = "True" <=> ~DominationAfter(<<initial_mark>>))

\* C2: for a non-negative live marking m and a transition id n + i,
\* fire returns true iff m >= pre and m - pre + post <= CAP, and then the
\* live marking becomes m - pre + post.
C2_FireIffEnabledAndResultWithinCap ==
    [][ (Calls("fire_trans")
           /\ (\A j \in Places : mark[j] >= 0)
           /\ ret'.args[1] \in places .. (places + Len(trans) - 1))
        => LET t == trans[ret'.args[1] - places + 1]
           IN  /\ ret'.result = "True" <=>
                     /\ \A j \in Places : mark[j] >= t[1][j]
                     /\ \A j \in Places : mark[j] - t[1][j] + t[2][j] <= CAP
               /\ ret'.result = "True" => mark' = Fired(mark, t) ]_vars

\* C3: fire(id) returns false and leaves the live marking (and everything
\* else) as it was when id is not a transition id in [n, n+m), a place id
\* included, or when the transition is disabled.
C3_FireFailsWithoutMutation ==
    [][ (Calls("fire_trans")
           /\ \/ ret'.args[1] \notin places .. (places + Len(trans) - 1)
              \/ \E j \in Places :
                    mark[j] < trans[ret'.args[1] - places + 1][1][j])
        => /\ ret'.result = "False"
           /\ mark' = mark
           /\ netVars' = netVars ]_vars

\* a disabled transition was fired
C3_Witness ==
    /\ ret.op = "fire_trans"
    /\ ret.result = "False"
    /\ ret.args[1] \in places .. (places + Len(trans) - 1)
    /\ \E j \in Places : mark[j] < trans[ret.args[1] - places + 1][1][j]
    /\ \E j \in Places : mark[j] > 0

\* C4: a witness pair is recorded only when analysis reports unbounded; it
\* is a pair (a, m) with m dominating a, a on the DFS path (joined to the
\* first marking of the search and to m by recorded firings); when analysis
\* reports bounded both fields are empty; Scenario A is unbounded with the
\* witness ((1), (2)).
C4_WitnessPair ==
    /\ (m_null # NoneSeq \/ m_last # NoneSeq) =>
          /\ m_null # NoneSeq /\ m_last # NoneSeq
          /\ bounded # "True"
          /\ pc = "idle" => bounded = "False"
          /\ pc # "idle" => pc = "false"
          /\ Dominates(m_last, m_null)
          /\ m_null \in DOMAIN g
          /\ m_last \in ReachFromIn(g, {m_null})
          /\ AnalysisLocals =>
                /\ path # <<>>
                /\ path[1] = initial_mark
                /\ m_null \in Range(path)
                /\ \A k \in 1 .. (Len(path) - 1) :
                      \E e \in g[path[k]] : e[1] = path[k + 1]
                /\ \E e \in g[path[Len(path)]] : e[1] = m_last
    /\ bounded = "True" => m_null = NoneSeq /\ m_last = NoneSeq
    /\ (AnalysisReturned /\ trans = ScenarioA.t /\ initial_mark = ScenarioA.m) =>
          bounded = "False" /\ m_null = <<1>> /\ m_last = <<2>>

\* analysis has returned unbounded with a witness two firings away from
\* the marking it dominates
C4_Witness ==
    /\ AnalysisReturned
    /\ bounded = "False"
    /\ Len(path) >= 2
    /\ m_null = path[1]
    /\ Dominates(m_last, m_null)

\* C5: when analysis reports bounded the graph is the reachability graph
\* of the firing rule: its nodes are the markings reachable from the initial
\* marking, every edge target is a node, and node m has the edge (r, i)
\* iff transition i fires at m with result r.
C5_BoundedGraphIsReachabilityGraph ==
    (AnalysisReturned /\ bounded = "True") =>
        /\ DOMAIN g = ReachFrom({initial_mark})
        /\ \A m \in DOMAIN g : g[m] = RuleEdges(m)
        /\ \A m \in DOMAIN g : \A e \in g[m] : e[1] \in DOMAIN g

\* analysis has returned bounded with a graph of several nodes, one of them
\* reached by two edges
C5_Witness ==
    /\ AnalysisReturned
    /\ bounded = "True"
    /\ Cardinality(DOMAIN g) >= 4
    /\ \E m \in DOMAIN g : \E x, y \in DOMAIN g :
          x # y /\ m \in RuleSucc(x) /\ m \in RuleSucc(y)

\* C6: on every well-formed input analysis returns without raising, with
\* the flag set to bounded or to unbounded, whatever the depth of the path.
C6_AnalysisReturnsVerdict ==
    AnalysisReturned =>
        /\ ret.result # "RecursionError"
        /\ bounded \in {"True", "False"}

\* C7: changeMark(delta, p) returns true iff 0 <= p < n and
\* mark[p] + delta >= 0, with no upper bound on the result; then only
\* component p of the live marking changes, by exactly delta.
C7_ChangeMarkIff ==
    [][ Calls("change_mark")
        => LET delta == ret'.args[1]
               p == ret'.args[2]
           IN  /\ ret'.result = "True" <=>
                     (0 <= p /\ p < Len(mark) /\ mark[p + 1] + delta >= 0)
               /\ ret'.result = "True" =>
                     /\ Len(mark') = Len(mark)
                     /\ mark'[p + 1] = mark[p + 1] + delta
                     /\ \A j \in Places : j # p + 1 => mark'[j] = mark[j] ]_vars

\* a token was added to a place of a two-place net that held CAP tokens
C7_Witness ==
    /\ ret.op = "change_mark"
    /\ ret.result = "True"
    /\ ret.args[1] = 1
    /\ Len(mark) = 2
    /\ mark[ret.args[2] + 1] = CAP + 1

\* C8: a failing changeMark (p < 0, p >= n or mark[p] + delta < 0) returns
\* false and changes neither the live marking nor the initial marking (nor
\* anything else); changeMark(-1, p) on an empty place fails.
C8_ChangeMarkFailsWithoutMutation ==
    [][ (Calls("change_mark")
           /\ LET delta == ret'.args[1]
                  p == ret'.args[2]
              IN  p < 0 \/ p >= Len(mark) \/ mark[p + 1] + delta < 0)
        => /\ ret'.result = "False"
           /\ mark' = mark
           /\ initial_mark' = initial_mark
           /\ netVars' = netVars ]_vars

\* changeMark(-1, p) was called on an empty place after a firing had moved
\* the live marking away from the initial marking
C8_Witness ==
    /\ ret.op = "change_mark"
    /\ ret.result = "False"
    /\ ret.args[1] = -1
    /\ ret.args[2] \in 0 .. (Len(mark) - 1)
    /\ mark[ret.args[2] + 1] = 0
    /\ mark # initial_mark

\* C9: after a successful changeMark the initial marking equals the new
\* live marking, and analysis explores from the initial marking: its first
\* call of dfs, and the first marking of its path, are that marking.
C9_EditsBecomeBaseline ==
    [][ /\ (Calls("change_mark") /\ ret'.result = "True")
            => initial_mark' = mark'
        /\ Calls("analysis")
            => arg' = initial_mark /\ pc' = "call" /\ visit' = {}
        /\ ret'.op = "analysis"
            => /\ initial_mark' = initial_mark
               /\ path' # <<>> => path'[1] = initial_mark'
               /\ DOMAIN g' # {} => initial_mark' \in DOMAIN g' ]_vars

\* analysis has returned for the token-passing net from the marking (0, 2),
\* which only an edit can produce
C9_Witness ==
    /\ AnalysisReturned
    /\ trans = NetB.t
    /\ initial_mark = <<0, 2>>
    /\ initial_mark \in DOMAIN g
    /\ Cardinality(DOMAIN g) = 3

\* C10: every marking that has a graph entry has all its components in
\* [0, CAP], and no edge leaves a marking with a component above CAP.
\* (Stated for the searches that start from a marking within [0, CAP].)
C10_NodesWithinCap ==
    (AnalysisLocals /\ WithinCap(initial_mark)) =>
        \A m \in DOMAIN g :
            /\ WithinCap(m)
            /\ (\E j \in 1 .. Len(m) : m[j] > CAP) => g[m] = {}

\* the number of (result, transitionIndex) pairs stored in the graph gr
EdgeTotal(gr) ==
    Cardinality(UNION { { <<m, e>> : e \in gr[m] } : m \in DOMAIN gr })

\* the edges the firing rule gives m for the transitions before position i
RuleEdgesBefore(m, i) == { e \in RuleEdges(m) : e[2] < i - 1 }

\* C11 (as claimed): when analysis returns, bounded or unbounded, nodeCount
\* equals the number of distinct markings visited by the search.
C11_NodeCountIsVisited ==
    AnalysisReturned => marks = Cardinality(visit)

\* C11 (amended): nodeCount equals the number of distinct markings visited
\* when analysis returns bounded, and that number less one when it returns
\* unbounded: the dominating marking is visited but not counted. At every
\* point of the search nodeCount is the number of visited markings other
\* than the dominating one.
C11_NodeCountIsVisitedButWitness ==
    AnalysisLocals =>
        /\ marks = Cardinality(visit \ {m_last})
        /\ m_last # NoneSeq => m_last \in visit
        /\ (AnalysisReturned /\ bounded = "True") => marks = Cardinality(visit)
        /\ (AnalysisReturned /\ bounded = "False") => marks = Cardinality(visit) - 1

\* analysis has returned unbounded after visiting three markings
C11_Witness ==
    /\ AnalysisReturned
    /\ bounded = "False"
    /\ Cardinality(visit) = 3
    /\ marks = 2

\* C12: at every point of analysis and when it returns, edgeCount is the
\* number of (marking, enabled transition) pairs expanded so far, which is
\* the number of (result, transitionIndex) pairs stored in the graph: the
\* edges of a node are those of the enabled transitions tried at it, in
\* index order, none counted twice and none lost.
C12_EdgeCountIsStoredPairs ==
    Loaded =>
        /\ edges = EdgeTotal(g)
        /\ \A m \in DOMAIN g :
              /\ g[m] \subseteq RuleEdges(m)
              /\ \A e \in g[m] : RuleEdgesBefore(m, e[2] + 1) \subseteq g[m]
        /\ \A k \in 1 .. Len(stack) :
              g[stack[k].mark] = RuleEdgesBefore(stack[k].mark, stack[k].i)
        /\ (AnalysisLocals /\ pc # "false") =>
              \A m \in DOMAIN g \ Range(path) : g[m] = RuleEdges(m)

\* the search is at the head of a loop, one transition still to try, at a
\* marking that has two edges already
C12_Witness ==
    /\ pc = "loop"
    /\ stack # <<>>
    /\ \E k \in 1 .. Len(stack) : Cardinality(g[stack[k].mark]) >= 2
    /\ \E k \in 1 .. Len(stack) : stack[k].i <= Len(trans)
    /\ edges >= 3

\* the search as a function of the transitions and the marking it starts
\* from, written as the recursion of section 4.2: the state of the search
\* before anything is visited
RefStart ==
    [visit |-> {}, path |-> <<>>, g |-> EmptyGraph, marks |-> 0, edges |-> 0,
     m_null |-> NoneSeq, m_last |-> NoneSeq, ok |-> TRUE]

RECURSIVE RefVisit(_, _)
RECURSIVE RefExpand(_, _, _)
\* visiting the marking m in the search state st
RefVisit(st, m) ==
    IF m \in st.visit
    THEN st
    ELSE LET seen == [st EXCEPT !.visit = @ \cup {m}]
             dominated == { k \in 1 .. Len(st.path) : Dominates(m, st.path[k]) }
         IN  IF dominated # {}
             THEN [seen EXCEPT
                     !.m_null = st.path[CHOOSE k \in dominated :
                                           \A l \in dominated : k <= l],
                     !.m_last = m,
                     !.ok = FALSE]
             ELSE RefExpand(
                     [seen EXCEPT
                        !.path = Append(@, m),
                        !.g = [x \in DOMAIN @ \cup {m} |->
                                 IF x = m THEN {} ELSE @[x]],
                        !.marks = @ + 1],
                     m, 1)

\* trying the transitions of m from position i on
RefExpand(st, m, i) ==
    IF i > Len(trans)
    THEN [st EXCEPT !.path = SubSeq(@, 1, Len(@) - 1)]
    ELSE IF Fires(m, trans[i])
    THEN LET r == Fired(m, trans[i])
             after == RefVisit(
                        [st EXCEPT !.g[m] = @ \cup {<<r, i - 1>>},
                                   !.edges = @ + 1],
                        r)
         IN  IF after.ok THEN RefExpand(after, m, i + 1) ELSE after
    ELSE RefExpand(st, m, i + 1)

\* C13: analysis is deterministic and not incremental: graph, node count,
\* edge count, verdict and witness pair are a function of the transition
\* list and the initial marking alone, whatever ran before (an earlier run
\* included); graph and counters are rebuilt from empty on each run.
C13_ResultIsFunctionOfNetAndInitialMarking ==
    AnalysisReturned =>
        LET r == RefVisit(RefStart, initial_mark)
        IN  /\ g = r.g
            /\ marks = r.marks
            /\ edges = r.edges
            /\ bounded = Bool(r.ok)
            /\ m_null = r.m_null
            /\ m_last = r.m_last
            /\ visit = r.visit

\* analysis has returned unbounded, with several nodes, from a call made
\* while the live marking was away from the initial marking
C13_Witness ==
    /\ AnalysisReturned
    /\ ret.args[1] # initial_mark
    /\ bounded = "False"
    /\ marks >= 2
    /\ edges >= 2

\* C14: every analysis run explores from the initial marking, whatever the
\* live marking is when it is called: the initial marking is a node of the
\* graph, and every node and every edge target is reached from it by
\* recorded edges, each of them a firing.
C14_GraphGrowsFromInitialMarking ==
    /\ (AnalysisLocals /\ pc # "call") => DOMAIN g # {}
    /\ (AnalysisLocals /\ DOMAIN g # {}) =>
          /\ initial_mark \in DOMAIN g
          /\ GraphMarkings \subseteq ReachFromIn(g, {initial_mark})
          /\ \A m \in DOMAIN g : g[m] \subseteq RuleEdges(m)

\* analysis has returned from a call made while the live marking was a
\* marking that the graph does not contain
C14_Witness ==
    /\ AnalysisReturned
    /\ ret.args[1] # initial_mark
    /\ ret.args[1] \notin GraphMarkings
    /\ Cardinality(GraphMarkings) >= 3

\* C15 (as claimed): analysis leaves the live marking and the initial
\* marking exactly as they were before the call.
C15_AnalysisLeavesMarkings ==
    [][ Calls("analysis") => mark' = mark /\ initial_mark' = initial_mark ]_vars

\* C15 (amended): analysis leaves the initial marking as it was and sets
\* the live marking to the initial marking; no later step of the run
\* changes either.
C15_AnalysisResetsLiveMarking ==
    [][ ret'.op = "analysis"
        => /\ initial_mark' = initial_mark
           /\ mark' = initial_mark
           /\ trans' = trans /\ places' = places /\ ids' = ids ]_vars

\* analysis has returned, with the live marking at the initial marking,
\* from a call made while the live marking was elsewhere
C15_Witness ==
    /\ AnalysisReturned
    /\ ret.args[1] # initial_mark
    /\ mark = initial_mark

\* the top frame has just recorded the edge into the argument of the call
EdgeIntoArgRecorded ==
    stack # <<>> => <<arg, Top.i - 2>> \in g[Top.mark]

\* C16: a call of dfs on a marking that is already visited returns
\* successfully: the edge into the marking is recorded, no node is created
\* or counted, no witness pair is set and the run is not reported unbounded
\* by it. Scenario B is reported bounded with nodeCount 2 and edgeCount 2.
C16_VisitedEndsBranchSuccessfully ==
    /\ [][ (pc = "call" /\ arg \in visit)
           => /\ EdgeIntoArgRecorded
              /\ g' = g /\ marks' = marks /\ edges' = edges /\ visit' = visit
              /\ m_null' = m_null /\ m_last' = m_last
              /\ pc' # "false" /\ bounded' # "False"
              /\ IF stack = <<>> THEN bounded' = "True" ELSE pc' = "loop" ]_vars
    /\ [](AnalysisReturned /\ initial_mark = NetB.m /\ trans = NetB.t
            => bounded = "True" /\ marks = 2 /\ edges = 2)

\* Scenario B has been analysed: both edges lead to a visited marking or to
\* the second node
C16_Witness ==
    /\ AnalysisReturned
    /\ initial_mark = NetB.m /\ trans = NetB.t
    /\ bounded = "True"
    /\ DOMAIN g = {<<1, 0>>, <<0, 1>>}
    /\ g[<<0, 1>>] = {<<(<<1, 0>>), 1>>}

\* C17: once the witness pair is recorded, no step of the run changes the
\* graph, the node count, the edge count, the witness pair, the visited set
\* or the path: every caller returns False at once, and the run ends with
\* the verdict unbounded.
C17_SearchStopsAtFirstWitness ==
    [][ (AnalysisLocals /\ pc # "idle" /\ m_last # NoneSeq)
        => /\ pc = "false"
           /\ g' = g /\ marks' = marks /\ edges' = edges
           /\ m_null' = m_null /\ m_last' = m_last
           /\ visit' = visit /\ path' = path
           /\ \/ pc' = "false" /\ Len(stack') < Len(stack)
              \/ pc' = "idle" /\ bounded' = "False" ]_vars

\* the search is returning False through a frame that still has a
\* transition to try that could fire at its marking
C17_Witness ==
    /\ pc = "false"
    /\ \E k \in 1 .. Len(stack) :
          \E i \in stack[k].i .. Len(trans) : Fires(stack[k].mark, trans[i])

\* C18: update_net(m, t) replaces the whole state: the live and the initial
\* marking are m, the place count is its length, exactly the ids n .. n+k-1
\* resolve, id n+i to the i-th transition of t, and the graph, the verdict,
\* the witness pair and the counts of the previous net are cleared.
C18_LoadReplacesState ==
    [][ Calls("update_net")
        => LET m == ret'.args[1]
               t == ret'.args[2]
               n == Len(m)
           IN  /\ mark' = m /\ initial_mark' = m
               /\ places' = n
               /\ trans' = t
               /\ DOMAIN ids' = { n + i : i \in 0 .. (Len(t) - 1) }
               /\ \A i \in 0 .. (Len(t) - 1) : ids'[n + i] = t[i + 1]
               /\ g' = EmptyGraph /\ DOMAIN g' = {}
               /\ bounded' = "None"
               /\ m_null' = NoneSeq /\ m_last' = NoneSeq
               /\ marks' = 0 /\ edges' = 0 ]_vars

\* a net of two places and two transitions has just been loaded
C18_Witness ==
    /\ ret.op = "update_net"
    /\ places = 2
    /\ DOMAIN ids = {2, 3}
    /\ mark = ret.args[1]

\* C19: set_mark(v) makes the live marking equal to v in every component
\* and changes nothing else: the initial marking, the transitions, the ids
\* and the stored result of analysis are as before.
C19_SetMarkFrame ==
    [][ Calls("set_mark")
        => /\ Len(mark') = Len(mark)
           /\ \A j \in 1 .. Len(mark) : mark'[j] = ret'.args[1][j]
           /\ initial_mark' = initial_mark
           /\ trans' = trans /\ places' = places /\ ids' = ids
           /\ g' = g /\ bounded' = bounded
           /\ m_null' = m_null /\ m_last' = m_last
           /\ marks' = marks /\ edges' = edges ]_vars

\* set_mark has moved the live marking to a marking of the graph that is
\* not the initial marking
C19_Witness ==
    /\ ret.op = "set_mark"
    /\ mark = ret.args[1]
    /\ mark # initial_mark
    /\ mark \in GraphMarkings

\* C20: in a loaded net no component of the live marking or of the initial
\* marking is negative, whatever calls of fire_trans, change_mark, analysis
\* and set_mark (to a marking of the graph) were made.
C20_MarkingsNonNegative ==
    Loaded =>
        /\ \A j \in 1 .. Len(mark) : mark[j] >= 0
        /\ \A j \in 1 .. Len(initial_mark) : initial_mark[j] >= 0

\* change_mark has just refused to take a token from an empty place of a
\* net that was analysed and whose live marking was moved
C20_Witness ==
    /\ ret.op = "change_mark"
    /\ ret.result = "False"
    /\ ret.args[1] < 0
    /\ ret.args[2] \in 0 .. (Len(mark) - 1)
    /\ mark[ret.args[2] + 1] + ret.args[1] < 0
    /\ bounded # "None"
    /\ \E j \in 1 .. Len(mark) : mark[j] = 0 /\ initial_mark[j] > 0

\* C21: for a known transition id, fire_trans succeeds exactly when every
\* component of candidate = mark - pre lies in [0, CAP], and then the live
\* marking is candidate + post, which is not range-checked: it may exceed
\* CAP.
C21_FireDecidesOnCandidate ==
    [][ (Calls("fire_trans")
           /\ ret'.args[1] \in places .. (places + Len(trans) - 1))
        => LET t == trans[ret'.args[1] - places + 1]
               candidate == [j \in Places |-> mark[j] - t[1][j]]
           IN  /\ ret'.result = "True" <=> WithinCap(candidate)
               /\ ret'.result = "True" =>
                     mark' = [j \in Places |-> candidate[j] + t[2][j]]
               /\ ret'.result = "False" => mark' = mark ]_vars

\* a firing has succeeded whose result has a component above CAP
C21_Witness ==
    /\ ret.op = "fire_trans"
    /\ ret.result = "True"
    /\ ret.args[1] \in places .. (places + Len(trans) - 1)
    /\ \E j \in Places : mark[j] > CAP

\* the index of the transition that fire_trans was just called with
FiredIndex == ret'.args[1] - places

\* fire_trans is called with a transition id while the live marking is a
\* node of the graph that analysis has left
FireAtNode ==
    /\ Calls("fire_trans")
    /\ ret'.args[1] \in places .. (places + Len(trans) - 1)
    /\ bounded # "None"
    /\ mark \in DOMAIN g

\* fire_trans at a node follows the edge of the graph with its index
FireFollowsEdge ==
    (\E e \in g[mark] : e[2] = FiredIndex)
        => ret'.result = "True" /\ <<mark', FiredIndex>> \in g[mark]

\* fire_trans at a node fails when the graph has no edge with its index
FireFailsWithoutEdge ==
    (\A e \in g[mark] : e[2] # FiredIndex)
        => ret'.result = "False" /\ mark' = mark

\* C22 (as claimed): at every node m of the graph of analysis, fire(n+i)
\* returns true and leaves the live marking at r for every recorded edge
\* (r, i), and returns false for every index i without an edge out of m.
C22_GraphAgreesWithFire ==
    [][ FireAtNode => FireFollowsEdge /\ FireFailsWithoutEdge ]_vars

\* C22 (amended): fire follows every recorded edge, whatever the verdict;
\* it fails for the indices without an edge at the nodes of a graph that
\* was reported bounded. (In a graph reported unbounded the search has
\* stopped before the nodes of the path had tried all their transitions.)
C22_GraphAgreesWithFireWhenBounded ==
    [][ FireAtNode
        => /\ FireFollowsEdge
           /\ bounded = "True" => FireFailsWithoutEdge ]_vars

\* fire has failed at a node of a bounded graph, not the initial marking,
\* that has an edge for another transition
C22_Witness ==
    /\ ret.op = "fire_trans"
    /\ ret.result = "False"
    /\ ret.args[1] \in places .. (places + Len(trans) - 1)
    /\ bounded = "True"
    /\ mark \in DOMAIN g
    /\ mark # initial_mark
    /\ g[mark] # {}

\* C23: _a_greater_b(a, b) is true if and only if a[i] >= b[i] for every
\* place i and a[i] > b[i] for at least one; hence it is false for a = b
\* (no marking dominates itself, an equal ancestor is no witness), and it
\* is never true in both directions.
C23_DominatesIff ==
    ret.op = "_a_greater_b" =>
        LET a == ret.args[1]
            b == ret.args[2]
        IN  /\ ret.result = "True" <=>
                  /\ \A i \in 1 .. Len(a) : a[i] >= b[i]
                  /\ \E i \in 1 .. Len(a) : a[i] > b[i]
            /\ a = b => ret.result = "False"
            /\ ret.result \in {"True", "False"}

\* the test has just refused a marking that is greater in one place and
\* smaller in another, after the greater place was seen first
C23_Witness ==
    /\ ret.op = "_a_greater_b"
    /\ ret.result = "False"
    /\ Len(ret.args[1]) = 2
    /\ ret.args[1][1] > ret.args[2][1]
    /\ ret.args[1][2] < ret.args[2][2]

\* the DFS is running: a call of dfs is being entered, is at its loop, or
\* is returning False
InDfs == AnalysisLocals /\ pc # "idle"

\* the path is a simple path of the graph under construction that starts
\* at the initial marking, inside the visited set, no longer than it
PathIsSimplePathOfGraph ==
    /\ path # <<>> => path[1] = initial_mark
    /\ \A k \in 1 .. (Len(path) - 1) : \E e \in g[path[k]] : e[1] = path[k + 1]
    /\ \A k \in 1 .. Len(path) : \A l \in 1 .. Len(path) : path[k] = path[l] => k = l
    /\ \A k \in 1 .. Len(path) : path[k] \in visit /\ path[k] \in DOMAIN g
    /\ Len(path) <= Cardinality(visit)

\* the calls of dfs that have pushed their marking and not returned are
\* those of the first markings of the path, in order
FramesArePathPrefix ==
    /\ Len(stack) <= Len(path)
    /\ \A k \in 1 .. Len(stack) : stack[k].mark = path[k]

\* C24 (as claimed): at every point of the DFS the path is a simple path
\* of the graph from the initial marking, inside the visited set, and the
\* recursion depth equals the path length.
C24_PathIsSimpleAndDepthIsLength ==
    InDfs => PathIsSimplePathOfGraph /\ FramesArePathPrefix /\ Len(stack) = Len(path)

\* C24 (amended): at every point of the DFS the path is a simple path of
\* the graph from the initial marking, inside the visited set and no longer
\* than it; the recursion depth equals the path length while no witness has
\* been found; once one has, the calls return False without popping the
\* path, so the depth falls below the path length.
C24_PathIsSimpleAndDepthIsLengthUntilWitness ==
    InDfs =>
        /\ PathIsSimplePathOfGraph
        /\ FramesArePathPrefix
        /\ pc \in {"call", "loop"} => Len(stack) = Len(path)
        /\ pc = "false" => m_last # NoneSeq /\ Len(path) >= 1
        /\ (pc = "false" /\ stack = <<>>) => Len(path) > Len(stack)

\* a call is returning False with one frame left while the path still
\* holds the three markings of the branch that found the witness
C24_Witness ==
    /\ pc = "false"
    /\ Len(stack) = 1
    /\ Len(path) = 3

\* C25: the initial marking changes only in update_net and in a successful
\* change_mark: fire_trans (successful or not), set_mark and a failed
\* change_mark leave it as it was, so firings never move it away from the
\* marking at load or at the last successful edit.
C25_InitialMarkingChangesOnlyInLoadAndEdit ==
    [][ /\ initial_mark' # initial_mark
           => \/ Calls("update_net")
              \/ Calls("change_mark") /\ ret'.result = "True"
        /\ (Calls("fire_trans") \/ Calls("set_mark")) => initial_mark' = initial_mark
        /\ (Calls("change_mark") /\ ret'.result = "False") => initial_mark' = initial_mark
        /\ (Calls("change_mark") /\ ret'.result = "True") => initial_mark' = mark'
        /\ Calls("update_net") => initial_mark' = ret'.args[1] ]_vars

\* a firing has succeeded and left the live marking at a marking that no
\* single firing from the initial marking gives
C25_Witness ==
    /\ ret.op = "fire_trans"
    /\ ret.result = "True"
    /\ mark # initial_mark
    /\ \A t \in Range(trans) : Fires(initial_mark, t) => Fired(initial_mark, t) # mark

\* the positions of the markings of the path that m dominates
DominatedOnPath(m) == { k \in 1 .. Len(path) : Dominates(m, path[k]) }

\* C26: when the marking that dfs is entered with is new and dominates
\* markings of the path, the witness pair is that marking and the earliest
\* dominated marking of the path, however many it dominates; a new marking
\* that dominates none is no witness.
C26_EarliestDominatedIsRecorded ==
    [][ (pc = "call" /\ arg \notin visit)
        => IF DominatedOnPath(arg) # {}
           THEN /\ m_last' = arg
                /\ \E k \in DominatedOnPath(arg) :
                      /\ m_null' = path[k]
                      /\ \A l \in DominatedOnPath(arg) : k <= l
                /\ path' = path
           ELSE m_null' = m_null /\ m_last' = m_last ]_vars

\* a witness was recorded that dominates the second and the third marking
\* of the path, and not the first
C26_Witness ==
    /\ AnalysisLocals
    /\ m_last # NoneSeq
    /\ Len(path) >= 3
    /\ DominatedOnPath(m_last) = {2, 3}
    /\ m_null = path[2]

\* C27: nodeCount always equals the number of keys of the graph. When
\* analysis has reported unbounded, the dominating witness is in the
\* visited set and is the target of the last edge added (the newest edge of
\* the last marking of the path), but it is no key of the graph and is not
\* counted; the dominated witness is a key, and so is every edge target
\* other than the dominating witness. When it has reported bounded, every
\* edge target is a key.
C27_NodeCountIsKeysAndWitnessIsNoNode ==
    /\ Loaded => marks = Cardinality(DOMAIN g)
    /\ (AnalysisReturned /\ bounded = "False") =>
          /\ m_last \in visit
          /\ m_last \notin DOMAIN g
          /\ marks = Cardinality(visit) - 1
          /\ m_null \in DOMAIN g
          /\ GraphMarkings \ {m_last} \subseteq DOMAIN g
          /\ path # <<>>
          /\ \E e \in g[path[Len(path)]] :
                /\ e[1] = m_last
                /\ \A f \in g[path[Len(path)]] : f[2] <= e[2]
    /\ (AnalysisReturned /\ bounded = "True") => GraphMarkings \subseteq DOMAIN g

\* analysis has returned unbounded from a graph of three nodes whose
\* dominating witness is an edge target and no node
C27_Witness ==
    /\ AnalysisReturned
    /\ bounded = "False"
    /\ marks >= 3
    /\ edges >= marks
    /\ m_last \in GraphMarkings \ DOMAIN g

\* the handler add_token or subtract_token is called, with its amount
TokenEditCalled(amount) ==
    \/ amount = 1 /\ Calls("add_token")
    \/ amount = -1 /\ Calls("subtract_token")

\* C28: with no place selected add_token and subtract_token change
\* nothing; with place p selected they add 1 to, or take 1 from, exactly
\* place p of the live marking (and the initial marking follows), except
\* that taking 1 from an empty place changes nothing; a successful firing
\* and the loading of a net clear the selection, and only a click on a
\* place sets it again.
C28_TokenEditingFollowsSelection ==
    [][ /\ \A amount \in {-1, 1} :
              TokenEditCalled(amount) =>
                 LET p == last_selected_place
                 IN  /\ last_selected_place' = p
                     /\ <<trans, places, ids, g, bounded, m_null, m_last, marks, edges>>'
                           = <<trans, places, ids, g, bounded, m_null, m_last, marks, edges>>
                     /\ IF p = NoneInt \/ (p # NoneInt /\ mark[p + 1] + amount < 0)
                        THEN mark' = mark /\ initial_mark' = initial_mark
                        ELSE /\ p \in 0 .. (places - 1)
                             /\ mark' = [mark EXCEPT ![p + 1] = @ + amount]
                             /\ initial_mark' = mark'
        /\ (Calls("controller.fire_trans") /\ ret'.result = "True")
              => last_selected_place' = NoneInt
        /\ Calls("new_net") => last_selected_place' = NoneInt
        /\ (last_selected_place = NoneInt /\ last_selected_place' # NoneInt)
              => Calls("place_clicked") ]_vars

\* add_token was called with no place selected after a place had been
\* edited and a firing had moved the live marking
C28_Witness ==
    /\ ret.op = "add_token"
    /\ ret.args[1] = NoneInt
    /\ ret.result = "False"
    /\ Loaded
    /\ mark # initial_mark
    /\ initial_mark \notin { n.m : n \in CtlNets }

\* C29: with a net loaded, reset_reachability_graph sets the live marking
\* to the initial marking as it is now (the marking at load or after the
\* last successful token edit), wherever firings and clicks on marking
\* labels have taken it, and changes nothing else; with no net loaded it
\* changes nothing.
C29_ResetRestoresInitialMarking ==
    [][ Calls("reset_reachability_graph")
        => /\ IF Loaded
              THEN /\ Len(mark') = Len(initial_mark)
                   /\ \A j \in 1 .. Len(initial_mark) : mark'[j] = initial_mark[j]
              ELSE mark' = mark
           /\ initial_mark' = initial_mark
           /\ <<trans, places, ids, g, bounded, m_null, m_last, marks, edges>>'
                 = <<trans, places, ids, g, bounded, m_null, m_last, marks, edges>>
           /\ last_selected_place' = last_selected_place ]_vars

\* the net was reset to an initial marking that a token edit has set,
\* after an analysis
C29_Witness ==
    /\ ret.op = "reset_reachability_graph"
    /\ Loaded
    /\ mark = initial_mark
    /\ initial_mark \notin { n.m : n \in CtlNets }
    /\ bounded # "None"

\* C30: load_marking_from_reach_graph(str(m)) returns without raising and
\* sets the live marking to m, for the tuple m of every marking of the
\* graph and of the initial marking, one place included; analyse completes
\* and leaves the live marking at the initial marking.
C30_LabelsRoundTrip ==
    [][ /\ Calls("load_marking_from_reach_graph")
           => \A m \in GraphMarkings \cup {initial_mark} :
                 ret'.args[1] = str_tuple(m)
                    => ret'.result = "None" /\ mark' = m
        /\ Calls("analyse")
           => ret'.result = "None" /\ (Loaded => mark' = initial_mark) ]_vars

\* the file the loader was called with
LoadedFile == ret.args[1]

\* the ids of the places and of the transitions of a file, as sets
PlaceIdsOf(f) == { f.places[k].id : k \in 1 .. Len(f.places) }

TransIdsOf(f) == { f.trans[k] : k \in 1 .. Len(f.trans) }

\* no two elements of the file, places and transitions together, share an
\* id
UniqueIds(f) ==
    /\ Cardinality(PlaceIdsOf(f)) = Len(f.places)
    /\ Cardinality(TransIdsOf(f)) = Len(f.trans)
    /\ PlaceIdsOf(f) \cap TransIdsOf(f) = {}

\* every arc joins a known place and a known transition
ArcsJoinPlaceAndTransition(f) ==
    \A k \in 1 .. Len(f.arcs) :
       \/ f.arcs[k].source \in PlaceIdsOf(f) /\ f.arcs[k].target \in TransIdsOf(f)
       \/ f.arcs[k].source \in TransIdsOf(f) /\ f.arcs[k].target \in PlaceIdsOf(f)

\* a text that is a negative number
NegativeText(t) == t # <<>> /\ t[1] = "-"

\* no place has a negative initial marking
CountsNonNegative(f) ==
    \A k \in 1 .. Len(f.places) : ~NegativeText(f.places[k].marking)

\* update_net has been called: the model has a place count
NetHanded == places # NoneInt

StructurallyValid(f) ==
    UniqueIds(f) /\ ArcsJoinPlaceAndTransition(f) /\ CountsNonNegative(f)

\* C31: parse raises ValueError and no net reaches the model whenever the
\* ids of the file are not unique, an arc has an unknown endpoint or joins
\* two places or two transitions, or an initial marking is negative; every
\* net that is accepted has unique ids, arcs between a place and a
\* transition only, and non-negative initial counts.
C31_LoaderRejectsInvalidNets ==
    ret.op = "parse" =>
        /\ ~StructurallyValid(LoadedFile) => ret.result = "ValueError" /\ ~NetHanded
        /\ ret.result = "None" => StructurallyValid(LoadedFile) /\ NetHanded

\* the number an inscription text stands for: 1 when there is none
TextWeight(t) == IF int_ok(t) THEN int_value(t) ELSE 1

\* the weights the file gives the arcs from s to d
ArcWeights(f, s, d) ==
    { TextWeight(f.arcs[k].inscription) :
        k \in { l \in 1 .. Len(f.arcs) : f.arcs[l].source = s /\ f.arcs[l].target = d } }

\* w is the weight of the arc from s to d, 0 when there is none
IsArcWeight(f, s, d, w) ==
    IF ArcWeights(f, s, d) = {} THEN w = 0 ELSE w \in ArcWeights(f, s, d)

\* the vectors of the loaded net have the length of the places of the file
\* and hold the counts and the arc weights of the file
LoadedDataMatchesFile(f) ==
    /\ places = Len(f.places)
    /\ Len(mark) = Len(f.places)
    /\ \A k \in 1 .. Len(f.places) :
          mark[k] = IF int_ok(f.places[k].marking) THEN int_value(f.places[k].marking) ELSE 0
    /\ Len(trans) = Len(f.trans)
    /\ \A j \in 1 .. Len(f.trans) :
          /\ Len(trans[j][1]) = Len(f.places)
          /\ Len(trans[j][2]) = Len(f.places)
          /\ \A i \in 1 .. Len(f.places) :
                /\ IsArcWeight(f, f.places[i].id, f.trans[j], trans[j][1][i])
                /\ IsArcWeight(f, f.trans[j], f.places[i].id, trans[j][2][i])

\* no entry of a pre or post vector is negative
WeightsNonNegative ==
    \A j \in 1 .. Len(trans) : \A i \in 1 .. Len(trans[j][1]) :
        trans[j][1][i] >= 0 /\ trans[j][2][i] >= 0

\* C32: for every net the loader accepts, the initial marking has one
\* count per place (0 without initialMarking) and every transition has pre
\* and post vectors of that length with non-negative entries: the weight
\* of the arc (1 without inscription), 0 without an arc.
C32_LoaderMeetsPreconditions ==
    (ret.op = "parse" /\ ret.result = "None") =>
        LoadedDataMatchesFile(LoadedFile) /\ WeightsNonNegative

====
